---- MODULE Spec2Model ----
(***************************************************************************)
(* Model of the interactive session selector of resume-sessions            *)
(* (run_interactive_selector in src/resume_sessions/__init__.py).          *)
(*                                                                         *)
(* A string is a sequence of one-character strings; the control bytes the  *)
(* loop looks at are named ("ESC", "CTRLC", "CR", "LF", "DEL", "TAB").     *)
(* A key event, the value getch() returns, is the sequence of bytes it is  *)
(* made of: <<"a">>, <<"ESC">>, <<"ESC", "[", "A">>.                       *)
(***************************************************************************)
EXTENDS Integers, Sequences, FiniteSets, TLC

VARIABLES
    choices,        \* list built by build_session_choices before the loop
    selected_idx,   \* nonlocal selected_idx
    scroll_offset,  \* nonlocal scroll_offset
    search_query,   \* nonlocal search_query
    search_mode,    \* nonlocal search_mode
    filtered,       \* local of the loop: the list the last render() returned
    ch,             \* local of the loop: the key the last getch() returned
    pc,             \* position in run_interactive_selector
    result,         \* what run_interactive_selector returned
    interrupted,    \* TRUE once the except KeyboardInterrupt branch has run
    tty_mode,       \* the mode of the terminal behind sys.stdin
    old_settings,   \* local of getch(): the mode tcgetattr() returned
    frame,          \* what the console shows: the last thing printed
    scenario,       \* history: how far the keys so far follow '/', text, Enter, Enter
    esc_tail,       \* history: the escape prefix that ends the bytes read so far
    read_count,     \* history: how many bytes the last getch() read from stdin
    titles,         \* format_titles: argument titles
    max_length,     \* format_titles: argument max_length
    formatted,      \* format_titles: the string returned
    total,          \* adjust_scroll on its own: len(filtered)
    window,         \* adjust_scroll on its own: max_visible
    disk,           \* .resume-sessions/sessions.json
    saved,          \* history: the mapping last handed to save_sessions
    clock,          \* datetime.now(timezone.utc)
    call,           \* per process: the call of get_session or update_session_title it is in
    session_infos,  \* build_session_choices: argument sessions
    titles_map,     \* build_session_choices: argument titles_map
    width,          \* render_session: argument width
    rendered        \* render_session: the arguments choice and is_selected, the lines returned

vars == <<choices, selected_idx, scroll_offset, search_query, search_mode,
          filtered, ch, pc, result, interrupted, tty_mode, old_settings,
          frame, scenario, esc_tail, titles, max_length, formatted,
          total, window, disk, saved, clock, call, read_count,
          session_infos, titles_map, width, rendered>>

\* the variables of the selector
selectorVars == <<choices, selected_idx, scroll_offset, search_query,
                  search_mode, filtered, ch, result, interrupted, tty_mode,
                  old_settings, frame, scenario, esc_tail, read_count>>

\* the variables of format_titles
titleVars == <<titles, max_length, formatted>>

\* the variables of adjust_scroll called on its own
scrollVars == <<total, window>>

\* the variables of the session store
storeVars == <<disk, saved, clock, call>>

\* the variables of build_session_choices and render_session
choiceVars == <<session_infos, titles_map, width, rendered>>

\* the variables run_interactive_selector does not touch
outsideSelector == <<titleVars, scrollVars, storeVars, choiceVars>>

----------------------------------------------------------------------------
(* Bounds *)

\* largest number of sessions handed to the selector
MaxChoices == 12

\* longest query the user types
MaxQueryLen == 2

\* longest title history handed to format_titles
MaxTitles == 4

\* largest max_length handed to format_titles
MaxLength == 20

\* largest len(filtered) adjust_scroll is called with on its own
MaxTotal == 10

\* largest max_visible adjust_scroll is called with on its own
MaxWindow == 9

\* largest scroll_offset adjust_scroll is called with on its own
MaxOffset == 11

\* number of calls of get_session and update_session_title
MaxCalls == 4

\* largest number of sessions handed to build_session_choices
MaxSessions == 2

\* largest terminal width handed to render_session
MaxWidth == 24

----------------------------------------------------------------------------
(* Program constants *)

max_visible == 8

ESC == "ESC"
CTRLC == "CTRLC"
CR == "CR"
LF == "LF"
DEL == "DEL"
TAB == "TAB"

\* the bytes the terminal can deliver
Bytes == {"q", CTRLC, ESC, "[", "A", "B", CR, LF, "/", DEL, "a", TAB}

\* the bytes for which str.isprintable() is true
Printable == {"q", "/", "[", "A", "B", "a"}

\* characters a user can type into the query ('q' quits, '/' restarts)
QueryChars == Printable \ {"q", "/"}

KeyUp == <<ESC, "[", "A">>
KeyDown == <<ESC, "[", "B">>

----------------------------------------------------------------------------
(* Helpers *)

Max(a, b) == IF a >= b THEN a ELSE b

Min(a, b) == IF a <= b THEN a ELSE b

\* str.lower() on one character
LowerChar(c) == IF c = "A" THEN "a" ELSE IF c = "B" THEN "b" ELSE c

\* str.lower()
Lower(s) == [i \in 1..Len(s) |-> LowerChar(s[i])]

\* sub in s
Contains(s, sub) ==
    \E i \in 0..(Len(s) - Len(sub)) : SubSeq(s, i + 1, i + Len(sub)) = sub

\* str.isprintable() on a key event
isprintable(k) == \A i \in 1..Len(k) : k[i] \in Printable

\* search_query[:-1]
DropLast(s) == SubSeq(s, 1, Len(s) - 1)

----------------------------------------------------------------------------
(* Choices *)

\* the lowercased searchable text of the i-th session
SearchableOf(i) ==
    CASE i % 4 = 1 -> <<"a", "b">>
      [] i % 4 = 2 -> <<"a">>
      [] i % 4 = 3 -> <<"b", "a">>
      [] OTHER     -> <<"b", "[">>

\* the choice dict of the i-th session
Choice(i) == [session_id |-> 100 + i, searchable |-> SearchableOf(i)]

\* the numbers of sessions the selector is started with: none, a few, a
\* full window, one more than the window, and the largest list
ChoiceSizes == (0..5) \cup {max_visible, max_visible + 1, MaxChoices}

\* the choice lists the selector is started with
ChoiceLists == {[i \in 1..n |-> Choice(i)] : n \in ChoiceSizes}

----------------------------------------------------------------------------
(* Return values *)

NotReturned == [kind |-> "running"]

ReturnNone == [kind |-> "None"]

ReturnId(id) == [kind |-> "session_id", id |-> id]

\* an exception other than KeyboardInterrupt left run_interactive_selector
Raised == [kind |-> "raised"]

\* termios.error left run_interactive_selector
TermiosError == [kind |-> "raised", exc |-> "termios.error"]

----------------------------------------------------------------------------
(* The console *)

\* nothing printed yet
NoFrame == [kind |-> "blank"]

\* console.print("[yellow]No sessions available[/yellow]")
NoSessionsFrame == [kind |-> "No sessions available"]

\* the mode the terminal is in when the selector starts
InitialModes == {"cooked"}

----------------------------------------------------------------------------
(* Nested functions of run_interactive_selector *)

get_filtered_choices_cased(cs, q) ==
    IF q = <<>>
    THEN cs
    ELSE SelectSeq(cs, LAMBDA c : Contains(c.searchable, q))

get_filtered_choices(cs, q) ==
    IF q = <<>>
    THEN cs
    ELSE SelectSeq(cs, LAMBDA c : Contains(c.searchable, Lower(q)))

adjust_scroll_at_late(sel, off, mv) ==
    IF sel < off
    THEN sel
    ELSE IF sel > off + mv
         THEN sel - mv + 1
         ELSE off

\* adjust_scroll() with max_visible = mv
adjust_scroll_at(sel, off, mv) ==
    IF sel < off
    THEN sel
    ELSE IF sel >= off + mv
         THEN sel - mv + 1
         ELSE off

adjust_scroll_off(sel, off) ==
    IF sel < off
    THEN sel
    ELSE IF sel >= off + max_visible
         THEN sel - max_visible
         ELSE off

\* the scroll_offset adjust_scroll() leaves
adjust_scroll(sel, off) == adjust_scroll_at(sel, off, max_visible)

\* the scroll_offset render() leaves
render_clamp(f, off) ==
    IF f = <<>>
    THEN off
    ELSE IF off > Len(f) - max_visible
         THEN Max(0, Len(f) - max_visible)
         ELSE off

render_unwindowed(f, sel, off, mode, q) ==
    LET visible_end == Len(f)
    IN [kind |-> "frame",
        search |-> IF mode \/ q # <<>> THEN <<q>> ELSE <<>>,
        no_matches |-> (f = <<>>),
        blocks |-> IF f = <<>>
                   THEN <<>>
                   ELSE [n \in 1..(visible_end - off) |->
                            [session_id |-> f[off + n].session_id,
                             is_selected |-> (off + n - 1 = sel)]],
        showing |-> IF f # <<>> /\ Len(f) > max_visible
                    THEN <<off + 1, visible_end, Len(f)>>
                    ELSE <<>>]

render_marks_next(f, sel, off, mode, q) ==
    LET visible_end == Min(off + max_visible, Len(f))
    IN [kind |-> "frame",
        search |-> IF mode \/ q # <<>> THEN <<q>> ELSE <<>>,
        no_matches |-> (f = <<>>),
        blocks |-> IF f = <<>>
                   THEN <<>>
                   ELSE [n \in 1..(visible_end - off) |->
                            [session_id |-> f[off + n].session_id,
                             is_selected |-> (off + n = sel)]],
        showing |-> IF f # <<>> /\ Len(f) > max_visible
                    THEN <<off + 1, visible_end, Len(f)>>
                    ELSE <<>>]

\* what render() prints for the list f, given the scroll_offset off it
\* has clamped: the search prompt, the no-matches line or the session
\* blocks of the window, and the scroll indicator
render(f, sel, off, mode, q) ==
    LET visible_end == Min(off + max_visible, Len(f))
    IN [kind |-> "frame",
        search |-> IF mode \/ q # <<>> THEN <<q>> ELSE <<>>,
        no_matches |-> (f = <<>>),
        blocks |-> IF f = <<>>
                   THEN <<>>
                   ELSE [n \in 1..(visible_end - off) |->
                            [session_id |-> f[off + n].session_id,
                             is_selected |-> (off + n - 1 = sel)]],
        showing |-> IF f # <<>> /\ Len(f) > max_visible
                    THEN <<off + 1, visible_end, Len(f)>>
                    ELSE <<>>]

getch_finally_skipped(mode, old) == mode

\* finally: termios.tcsetattr(fd, termios.TCSADRAIN, old_settings)
getch_finally(mode, old) == old

\* the key event getch() returns for the bytes b1 b2 b3 waiting on stdin
getch(b1, b2, b3) ==
    IF b1 = ESC
    THEN IF b2 = "[" THEN <<ESC, "[", b3>> ELSE <<b1>>
    ELSE <<b1>>

\* the escape prefix that ends an input: <<ESC>> after an ESC byte,
\* <<ESC, "[">> after ESC and "[", <<>> after anything else
EscStep(prefix, b) ==
    IF b = ESC
    THEN <<ESC>>
    ELSE IF prefix = <<ESC>> /\ b = "["
         THEN <<ESC, "[">>
         ELSE <<>>

\* the escape prefix once the bytes bs have been read as well
RECURSIVE EscPrefix(_, _)
EscPrefix(prefix, bs) ==
    IF bs = <<>>
    THEN prefix
    ELSE EscPrefix(EscStep(prefix, Head(bs)), Tail(bs))

----------------------------------------------------------------------------
(* Values of the session store *)

\* the processes that call into the store: runs of the resume-sessions
\* commands title and show
Procs == {"cli", "cli2"}

\* sessions.json does not exist
Missing == [kind |-> "missing"]

\* sessions.json holds the text t
File(t) == [kind |-> "file", text |-> t]

\* {}
EmptyMapping == [k \in {} |-> k]

\* the process makes no calls
Off == [pc |-> "off"]

\* the process is in no call
NoCall == [pc |-> "idle"]

\* no call of build_session_choices or render_session on its own
ChoicesIdle ==
    /\ session_infos = <<>>
    /\ titles_map = EmptyMapping
    /\ width = 0
    /\ rendered = <<>>

\* no call of adjust_scroll on its own, no store
OutsideIdle ==
    /\ total = 0
    /\ window = 0
    /\ disk = Missing
    /\ saved = EmptyMapping
    /\ clock = 0
    /\ call = [p \in Procs |-> NoCall]
    /\ ChoicesIdle

----------------------------------------------------------------------------
(* Initial state *)

Init ==
    /\ choices \in ChoiceLists
    /\ selected_idx = 0
    /\ scroll_offset = 0
    /\ search_query = <<>>
    /\ search_mode = FALSE
    /\ filtered = <<>>
    /\ ch = <<>>
    /\ pc = "start"
    /\ result = NotReturned
    /\ interrupted = FALSE
    /\ tty_mode \in InitialModes
    /\ old_settings = tty_mode
    /\ frame = NoFrame
    /\ scenario = "init"
    /\ esc_tail = <<>>
    /\ read_count = 0
    /\ titles = <<>>
    /\ max_length = 0
    /\ formatted = <<>>
    /\ OutsideIdle

----------------------------------------------------------------------------
(* Steps of run_interactive_selector *)

Start_enters_loop ==
    /\ pc = "start"
    /\ pc' = "render"
    /\ UNCHANGED <<choices, selected_idx, scroll_offset, search_query,
                   search_mode, filtered, ch, result, interrupted, tty_mode,
                   old_settings, frame, scenario>>
    /\ UNCHANGED <<esc_tail, read_count>>
    /\ UNCHANGED outsideSelector

\* if not choices: print "No sessions available"; return None
Start ==
    /\ pc = "start"
    /\ IF choices = <<>>
       THEN pc' = "done" /\ result' = ReturnNone /\ frame' = NoSessionsFrame
       ELSE pc' = "render" /\ result' = result /\ frame' = frame
    /\ UNCHANGED <<choices, selected_idx, scroll_offset, search_query,
                   search_mode, filtered, ch, interrupted, tty_mode,
                   old_settings, scenario>>
    /\ UNCHANGED <<esc_tail, read_count>>
    /\ UNCHANGED outsideSelector

\* adjust_scroll(); filtered = render()
Render ==
    /\ pc = "render"
    /\ LET f == get_filtered_choices(choices, search_query)
           off == adjust_scroll(selected_idx, scroll_offset)
       IN /\ filtered' = f
          /\ scroll_offset' = render_clamp(f, off)
          /\ frame' = render(f, selected_idx, render_clamp(f, off),
                             search_mode, search_query)
    /\ pc' = "getch"
    /\ UNCHANGED <<choices, selected_idx, search_query, search_mode, ch,
                   result, interrupted, tty_mode, old_settings, scenario>>
    /\ UNCHANGED <<esc_tail, read_count>>
    /\ UNCHANGED outsideSelector

\* the user does not type past MaxQueryLen characters
MayType(b) ==
    ~(search_mode /\ b \in QueryChars /\ Len(search_query) >= MaxQueryLen)

\* getch(): old_settings = termios.tcgetattr(fd); tty.setraw(fd)
GetchRaw ==
    /\ pc = "getch"
    /\ old_settings' = tty_mode
    /\ tty_mode' = "raw"
    /\ pc' = "read"
    /\ UNCHANGED <<choices, selected_idx, scroll_offset, search_query,
                   search_mode, filtered, ch, result, interrupted, frame,
                   scenario>>
    /\ UNCHANGED <<esc_tail, read_count>>
    /\ UNCHANGED outsideSelector

GetchRawError_caught ==
    /\ pc = "getch"
    /\ pc' = "done"
    /\ result' = ReturnNone
    /\ UNCHANGED <<choices, selected_idx, scroll_offset, search_query,
                   search_mode, filtered, ch, interrupted, tty_mode,
                   old_settings, frame, scenario>>
    /\ UNCHANGED <<esc_tail, read_count>>
    /\ UNCHANGED outsideSelector

\* getch(): termios.tcgetattr(fd) raises termios.error before the try, or
\* tty.setraw(fd) raises it inside the try and the finally clause runs; the
\* loop catches KeyboardInterrupt only, so the exception leaves
\* run_interactive_selector
GetchRawError ==
    /\ pc = "getch"
    /\ \E failing \in {"tcgetattr", "setraw"} :
          IF failing = "tcgetattr"
          THEN UNCHANGED <<tty_mode, old_settings>>
          ELSE /\ old_settings' = tty_mode
               /\ tty_mode' = getch_finally(tty_mode, tty_mode)
    /\ pc' = "raised"
    /\ result' = TermiosError
    /\ UNCHANGED <<choices, selected_idx, scroll_offset, search_query,
                   search_mode, filtered, ch, interrupted, frame, scenario>>
    /\ UNCHANGED <<esc_tail, read_count>>
    /\ UNCHANGED outsideSelector

\* getch(): sys.stdin.read(1) raises; the finally clause runs and the
\* exception leaves run_interactive_selector
GetchError ==
    /\ pc = "read"
    /\ tty_mode' = getch_finally(tty_mode, old_settings)
    /\ pc' = "raised"
    /\ result' = Raised
    /\ UNCHANGED <<choices, selected_idx, scroll_offset, search_query,
                   search_mode, filtered, ch, interrupted, old_settings,
                   frame, scenario>>
    /\ UNCHANGED <<esc_tail, read_count>>
    /\ UNCHANGED outsideSelector

\* ch = getch(): the reads, the finally clause and the return
Getch ==
    /\ pc = "read"
    /\ tty_mode' = getch_finally(tty_mode, old_settings)
    /\ \E b1 \in Bytes :
          /\ MayType(b1)
          /\ IF b1 = ESC
             THEN \E b2 \in Bytes :
                     IF b2 = "["
                     THEN \E b3 \in Bytes :
                             /\ ch' = getch(b1, b2, b3)
                             /\ esc_tail' = EscPrefix(esc_tail, <<b1, b2, b3>>)
                             /\ read_count' = 3
                     ELSE /\ ch' = getch(b1, b2, b2)
                          /\ esc_tail' = EscPrefix(esc_tail, <<b1, b2>>)
                          /\ read_count' = 2
             ELSE /\ ch' = getch(b1, b1, b1)
                  /\ esc_tail' = EscPrefix(esc_tail, <<b1>>)
                  /\ read_count' = 1
    /\ pc' = "dispatch"
    /\ UNCHANGED <<choices, selected_idx, scroll_offset, search_query,
                   search_mode, filtered, result, interrupted, old_settings,
                   frame, scenario>>
    /\ UNCHANGED outsideSelector

OnQuit_typed ==
    IF search_mode /\ ch = <<"q">>
    THEN /\ search_query' = search_query \o ch
         /\ selected_idx' = 0
         /\ scroll_offset' = 0
         /\ pc' = "render"
         /\ UNCHANGED <<search_mode, result>>
    ELSE /\ pc' = "done"
         /\ result' = ReturnNone
         /\ UNCHANGED <<selected_idx, scroll_offset, search_query,
                        search_mode>>

\* ch == "q" or ch == "\x03": return None
OnQuit ==
    /\ pc' = "done"
    /\ result' = ReturnNone
    /\ UNCHANGED <<selected_idx, scroll_offset, search_query, search_mode>>

OnUp_wraps ==
    /\ selected_idx' = IF selected_idx = 0 /\ filtered # <<>>
                       THEN Len(filtered) - 1
                       ELSE Max(0, selected_idx - 1)
    /\ pc' = "render"
    /\ UNCHANGED <<scroll_offset, search_query, search_mode, result>>

\* ch == "\x1b[A"
OnUp ==
    /\ selected_idx' = Max(0, selected_idx - 1)
    /\ pc' = "render"
    /\ UNCHANGED <<scroll_offset, search_query, search_mode, result>>

OnDown_past ==
    /\ selected_idx' = IF filtered # <<>>
                       THEN Min(Len(filtered), selected_idx + 1)
                       ELSE 0
    /\ pc' = "render"
    /\ UNCHANGED <<scroll_offset, search_query, search_mode, result>>

OnDown_unguarded ==
    /\ selected_idx' = Min(Len(filtered) - 1, selected_idx + 1)
    /\ pc' = "render"
    /\ UNCHANGED <<scroll_offset, search_query, search_mode, result>>

\* ch == "\x1b[B"
OnDown ==
    /\ selected_idx' = IF filtered # <<>>
                       THEN Min(Len(filtered) - 1, selected_idx + 1)
                       ELSE 0
    /\ pc' = "render"
    /\ UNCHANGED <<scroll_offset, search_query, search_mode, result>>

OnEnter_unfiltered ==
    IF search_mode
    THEN /\ search_mode' = FALSE
         /\ pc' = "render"
         /\ UNCHANGED <<selected_idx, scroll_offset, search_query, result>>
    ELSE IF filtered # <<>> /\ 0 <= selected_idx /\ selected_idx < Len(filtered)
         THEN /\ pc' = "done"
              /\ result' = ReturnId(choices[selected_idx + 1].session_id)
              /\ UNCHANGED <<selected_idx, scroll_offset, search_query,
                             search_mode>>
         ELSE /\ pc' = "render"
              /\ UNCHANGED <<selected_idx, scroll_offset, search_query,
                             search_mode, result>>

OnEnter_selects ==
    IF filtered # <<>> /\ 0 <= selected_idx /\ selected_idx < Len(filtered)
    THEN /\ pc' = "done"
         /\ result' = ReturnId(filtered[selected_idx + 1].session_id)
         /\ UNCHANGED <<selected_idx, scroll_offset, search_query,
                        search_mode>>
    ELSE /\ pc' = "render"
         /\ search_mode' = FALSE
         /\ UNCHANGED <<selected_idx, scroll_offset, search_query, result>>

\* ch == "\r" or ch == "\n"
OnEnter ==
    IF search_mode
    THEN /\ search_mode' = FALSE
         /\ pc' = "render"
         /\ UNCHANGED <<selected_idx, scroll_offset, search_query, result>>
    ELSE IF filtered # <<>> /\ 0 <= selected_idx /\ selected_idx < Len(filtered)
         THEN /\ pc' = "done"
              /\ result' = ReturnId(filtered[selected_idx + 1].session_id)
              /\ UNCHANGED <<selected_idx, scroll_offset, search_query,
                             search_mode>>
         ELSE /\ pc' = "render"
              /\ UNCHANGED <<selected_idx, scroll_offset, search_query,
                             search_mode, result>>

OnSlash_keeps_query ==
    /\ search_mode' = TRUE
    /\ selected_idx' = 0
    /\ scroll_offset' = 0
    /\ pc' = "render"
    /\ UNCHANGED <<search_query, result>>

\* ch == "/"
OnSlash ==
    /\ search_mode' = TRUE
    /\ search_query' = <<>>
    /\ selected_idx' = 0
    /\ scroll_offset' = 0
    /\ pc' = "render"
    /\ UNCHANGED result

OnBackspace_keeps_selection ==
    /\ IF search_query # <<>>
       THEN /\ search_query' = DropLast(search_query)
            /\ UNCHANGED <<selected_idx, scroll_offset>>
       ELSE UNCHANGED <<search_query, selected_idx, scroll_offset>>
    /\ pc' = "render"
    /\ UNCHANGED <<search_mode, result>>

\* ch == "\x7f"
OnBackspace ==
    /\ IF search_query # <<>>
       THEN /\ search_query' = DropLast(search_query)
            /\ selected_idx' = 0
            /\ scroll_offset' = 0
       ELSE UNCHANGED <<search_query, selected_idx, scroll_offset>>
    /\ pc' = "render"
    /\ UNCHANGED <<search_mode, result>>

OnEscape_keeps_mode ==
    /\ search_query' = <<>>
    /\ selected_idx' = 0
    /\ scroll_offset' = 0
    /\ pc' = "render"
    /\ UNCHANGED <<search_mode, result>>

\* ch == "\x1b"
OnEscape ==
    /\ search_mode' = FALSE
    /\ search_query' = <<>>
    /\ selected_idx' = 0
    /\ scroll_offset' = 0
    /\ pc' = "render"
    /\ UNCHANGED result

OnPrintable_prepends ==
    /\ search_query' = ch \o search_query
    /\ selected_idx' = 0
    /\ scroll_offset' = 0
    /\ pc' = "render"
    /\ UNCHANGED <<search_mode, result>>

\* search_mode and ch.isprintable()
OnPrintable ==
    /\ search_query' = search_query \o ch
    /\ selected_idx' = 0
    /\ scroll_offset' = 0
    /\ pc' = "render"
    /\ UNCHANGED <<search_mode, result>>

OnOther_typed ==
    IF isprintable(ch)
    THEN /\ search_query' = search_query \o ch
         /\ selected_idx' = 0
         /\ scroll_offset' = 0
         /\ pc' = "render"
         /\ UNCHANGED <<search_mode, result>>
    ELSE /\ pc' = "render"
         /\ UNCHANGED <<selected_idx, scroll_offset, search_query,
                        search_mode, result>>

\* no branch of the if/elif chain matches
OnOther ==
    /\ pc' = "render"
    /\ UNCHANGED <<selected_idx, scroll_offset, search_query, search_mode,
                   result>>

\* how far the keys dispatched so far follow '/', text, Enter, Enter
ScenarioStep(phase, k) ==
    CASE phase = "init" /\ k = <<"/">> -> "typing"
      [] phase = "typing" /\ k \in {<<c>> : c \in QueryChars} -> "typing"
      [] phase = "typing" /\ k \in {<<CR>>, <<LF>>} -> "exit"
      [] phase = "exit" /\ k \in {<<CR>>, <<LF>>} -> "select"
      [] OTHER -> "off"

\* the if/elif chain on ch
Dispatch ==
    /\ pc = "dispatch"
    /\ IF ch = <<"q">> \/ ch = <<CTRLC>> THEN OnQuit
       ELSE IF ch = KeyUp THEN OnUp
       ELSE IF ch = KeyDown THEN OnDown
       ELSE IF ch = <<CR>> \/ ch = <<LF>> THEN OnEnter
       ELSE IF ch = <<"/">> THEN OnSlash
       ELSE IF ch = <<DEL>> THEN OnBackspace
       ELSE IF ch = <<ESC>> THEN OnEscape
       ELSE IF search_mode /\ isprintable(ch) THEN OnPrintable
       ELSE OnOther
    /\ scenario' = ScenarioStep(scenario, ch)
    /\ UNCHANGED <<choices, filtered, ch, interrupted, tty_mode,
                   old_settings, frame>>
    /\ UNCHANGED <<esc_tail, read_count>>
    /\ UNCHANGED outsideSelector

\* except KeyboardInterrupt: return None
Interrupt ==
    /\ pc \in {"render", "getch", "read", "dispatch"}
    /\ tty_mode' = IF pc = "read"
                   THEN getch_finally(tty_mode, old_settings)
                   ELSE tty_mode
    /\ pc' = "done"
    /\ result' = ReturnNone
    /\ interrupted' = TRUE
    /\ UNCHANGED <<choices, selected_idx, scroll_offset, search_query,
                   search_mode, filtered, ch, old_settings, frame, scenario>>
    /\ UNCHANGED <<esc_tail, read_count>>
    /\ UNCHANGED outsideSelector

Next ==
    \/ Start
    \/ Render
    \/ GetchRaw
    \/ GetchRawError
    \/ Getch
    \/ GetchError
    \/ Dispatch
    \/ Interrupt

Spec == Init /\ [][Next]_vars

----------------------------------------------------------------------------
(* format_titles *)

\* separator = " · "
Separator == <<" ", "·", " ">>

\* the " ··· " of the abbreviated form
Ellipsis == <<" ", "·", "·", "·", " ">>

\* "New session"
NewSession == <<"N", "e", "w", " ", "s", "e", "s", "s", "i", "o", "n">>

\* separator.join(ts)
RECURSIVE Join(_)
Join(ts) ==
    IF ts = <<>>
    THEN <<>>
    ELSE IF Len(ts) = 1
         THEN ts[1]
         ELSE ts[1] \o Separator \o Join(Tail(ts))

\* titles[-2:]
LastTwo(ts) == SubSeq(ts, Len(ts) - 1, Len(ts))

format_titles_truncates(ts, m) ==
    IF ts = <<>>
    THEN NewSession
    ELSE IF Len(ts) = 1
    THEN SubSeq(ts[1], 1, Min(m, Len(ts[1])))
    ELSE LET full == Join(ts)
             abbreviated == ts[1] \o Ellipsis \o Join(LastTwo(ts))
         IN IF Len(full) <= m
            THEN full
            ELSE IF Len(abbreviated) <= m
                 THEN abbreviated
                 ELSE Join(LastTwo(ts))

format_titles_strict(ts, m) ==
    IF ts = <<>>
    THEN NewSession
    ELSE IF Len(ts) = 1
    THEN ts[1]
    ELSE LET full == Join(ts)
             abbreviated == ts[1] \o Ellipsis \o Join(LastTwo(ts))
         IN IF Len(full) < m
            THEN full
            ELSE IF Len(abbreviated) <= m
                 THEN abbreviated
                 ELSE Join(LastTwo(ts))

format_titles_inverted(ts, m) ==
    IF ts = <<>>
    THEN NewSession
    ELSE IF Len(ts) = 1
    THEN ts[1]
    ELSE LET full == Join(ts)
             abbreviated == ts[1] \o Ellipsis \o Join(LastTwo(ts))
         IN IF Len(full) <= m
            THEN full
            ELSE IF Len(abbreviated) > m
                 THEN abbreviated
                 ELSE Join(LastTwo(ts))

format_titles_clips(ts, m) ==
    IF ts = <<>>
    THEN NewSession
    ELSE IF Len(ts) = 1
    THEN ts[1]
    ELSE LET full == Join(ts)
             abbreviated == ts[1] \o Ellipsis \o Join(LastTwo(ts))
         IN IF Len(full) <= m
            THEN full
            ELSE IF Len(abbreviated) <= m
                 THEN abbreviated
                 ELSE SubSeq(Join(LastTwo(ts)), 1,
                             Min(m, Len(Join(LastTwo(ts)))))

format_titles_full(ts, m) ==
    IF ts = <<>>
    THEN NewSession
    ELSE IF Len(ts) = 1
    THEN ts[1]
    ELSE LET full == Join(ts)
             abbreviated == ts[1] \o Ellipsis \o Join(LastTwo(ts))
         IN IF Len(full) <= m
            THEN full
            ELSE IF Len(abbreviated) <= m
                 THEN abbreviated
                 ELSE full

format_titles(ts, m) ==
    IF ts = <<>>
    THEN NewSession
    ELSE IF Len(ts) = 1
    THEN ts[1]
    ELSE LET full == Join(ts)
             abbreviated == ts[1] \o Ellipsis \o Join(LastTwo(ts))
         IN IF Len(full) <= m
            THEN full
            ELSE IF Len(abbreviated) <= m
                 THEN abbreviated
                 ELSE Join(LastTwo(ts))

\* the titles a history is made of
TitleSet == {<<>>, <<"x">>, <<"y", "y">>, <<"z", "z", "z">>}

\* the title histories format_titles is called with
TitleLists == UNION {[1..n -> TitleSet] : n \in 0..MaxTitles}

InitTitles ==
    /\ choices = <<>>
    /\ selected_idx = 0
    /\ scroll_offset = 0
    /\ search_query = <<>>
    /\ search_mode = FALSE
    /\ filtered = <<>>
    /\ ch = <<>>
    /\ pc = "format_titles"
    /\ result = NotReturned
    /\ interrupted = FALSE
    /\ tty_mode \in InitialModes
    /\ old_settings = tty_mode
    /\ frame = NoFrame
    /\ scenario = "init"
    /\ esc_tail = <<>>
    /\ read_count = 0
    /\ titles \in TitleLists
    /\ max_length = 0
    /\ formatted = <<>>
    /\ OutsideIdle

\* a call format_titles(titles, m); a later call has the same titles and
\* any other max_length
FormatTitles ==
    /\ pc \in {"format_titles", "formatted"}
    /\ \E m \in 0..MaxLength :
          /\ max_length' = m
          /\ formatted' = format_titles(titles, m)
    /\ pc' = "formatted"
    /\ UNCHANGED titles
    /\ UNCHANGED <<selectorVars, scrollVars, storeVars, choiceVars>>

NextTitles == FormatTitles

SpecTitles == InitTitles /\ [][NextTitles]_vars

\* the selector is not running
SelectorIdle ==
    /\ choices = <<>>
    /\ selected_idx = 0
    /\ scroll_offset = 0
    /\ search_query = <<>>
    /\ search_mode = FALSE
    /\ filtered = <<>>
    /\ ch = <<>>
    /\ result = NotReturned
    /\ interrupted = FALSE
    /\ tty_mode \in InitialModes
    /\ old_settings = tty_mode
    /\ frame = NoFrame
    /\ scenario = "init"
    /\ esc_tail = <<>>
    /\ read_count = 0

\* no call of format_titles
TitlesIdle ==
    /\ titles = <<>>
    /\ max_length = 0
    /\ formatted = <<>>

----------------------------------------------------------------------------
(* adjust_scroll on its own *)

InitScroll ==
    /\ choices = <<>>
    /\ search_query = <<>>
    /\ search_mode = FALSE
    /\ filtered = <<>>
    /\ ch = <<>>
    /\ result = NotReturned
    /\ interrupted = FALSE
    /\ tty_mode \in InitialModes
    /\ old_settings = tty_mode
    /\ frame = NoFrame
    /\ scenario = "init"
    /\ esc_tail = <<>>
    /\ read_count = 0
    /\ TitlesIdle
    /\ pc = "adjust_scroll"
    /\ total \in 1..MaxTotal
    /\ window \in 1..MaxWindow
    /\ selected_idx \in 0..(total - 1)
    /\ scroll_offset \in 0..MaxOffset
    /\ disk = Missing
    /\ saved = EmptyMapping
    /\ clock = 0
    /\ call = [p \in Procs |-> NoCall]
    /\ ChoicesIdle

\* adjust_scroll()
AdjustScroll ==
    /\ pc = "adjust_scroll"
    /\ scroll_offset' = adjust_scroll_at(selected_idx, scroll_offset, window)
    /\ pc' = "adjusted"
    /\ UNCHANGED <<choices, selected_idx, search_query, search_mode, filtered,
                   ch, result, interrupted, tty_mode, old_settings, frame,
                   scenario, esc_tail, read_count>>
    /\ UNCHANGED <<titleVars, scrollVars, storeVars, choiceVars>>

\* between two calls the caller moves the selection and the window
SetScroll ==
    /\ pc = "adjusted"
    /\ selected_idx' \in 0..(total - 1)
    /\ scroll_offset' \in 0..MaxOffset
    /\ pc' = "adjust_scroll"
    /\ UNCHANGED <<choices, search_query, search_mode, filtered, ch, result,
                   interrupted, tty_mode, old_settings, frame, scenario,
                   esc_tail, read_count>>
    /\ UNCHANGED <<titleVars, scrollVars, storeVars, choiceVars>>

NextScroll == AdjustScroll \/ SetScroll

SpecScroll == InitScroll /\ [][NextScroll]_vars

----------------------------------------------------------------------------
(* The session store: load_sessions, save_sessions, get_session,           *)
(* update_session_title                                                     *)

\* the session ids the callers use, in the order json.dump writes them
SessionIds == <<"s1", "s2">>

\* the titles the callers hand to update_session_title
NewTitles == {"New session", "First", "Second"}

\* the mapping m with m[k] = v
Put(m, k, v) == [x \in (DOMAIN m) \cup {k} |-> IF x = k THEN v ELSE m[x]]

\* the tokens of a JSON text
LBrace == [tok |-> "{", key |-> "", value |-> <<>>]

RBrace == [tok |-> "}", key |-> "", value |-> <<>>]

\* "key": value
Member(k, v) == [tok |-> "member", key |-> k, value |-> v]

\* json.dump(sessions, f, indent=2)
json_dump(m) ==
    LET keys == SelectSeq(SessionIds, LAMBDA k : k \in DOMAIN m)
    IN <<LBrace>> \o [i \in 1..Len(keys) |-> Member(keys[i], m[keys[i]])]
                  \o <<RBrace>>

\* the text is one JSON object: json.load does not raise JSONDecodeError
IsJson(t) ==
    /\ Len(t) >= 2
    /\ t[1] = LBrace
    /\ t[Len(t)] = RBrace
    /\ \A i \in 2..(Len(t) - 1) : t[i].tok = "member"

\* json.load(f) of a text that is one JSON object; the last member of a key
\* is the one kept
json_load(t) ==
    LET members == SubSeq(t, 2, Len(t) - 1)
        keys == {members[i].key : i \in DOMAIN members}
        last(k) == CHOOSE i \in DOMAIN members :
                      /\ members[i].key = k
                      /\ \A j \in DOMAIN members :
                            members[j].key = k => j <= i
    IN [k \in keys |-> members[last(k)].value]

\* load_sessions(repo_root) when sessions.json is d
load_sessions(d) ==
    IF d.kind = "missing"
    THEN EmptyMapping
    ELSE IF IsJson(d.text)
         THEN json_load(d.text)
         ELSE EmptyMapping

save_sessions_appends(d, m) ==
    File((IF d.kind = "file" THEN d.text ELSE <<>>) \o json_dump(m))

\* save_sessions(sessions, repo_root) when sessions.json is d: open(path, "w")
\* truncates the file
save_sessions(d, m) == File(json_dump(m))

new_session_untitled(now) ==
    [titles |-> <<>>, created |-> now, last_updated |-> now]

\* {"titles": ["New session"], "created": now, "last_updated": now}
new_session(now) ==
    [titles |-> <<"New session">>, created |-> now, last_updated |-> now]

append_title_always(ts, t) == Append(ts, t)

\* current_title = titles[-1] if titles else ""; if new_title !=
\* current_title: titles.append(new_title)
append_title(ts, t) ==
    LET current_title == IF ts # <<>> THEN ts[Len(ts)] ELSE ""
    IN IF t # current_title THEN Append(ts, t) ELSE ts

updated_sessions_recreated(m, id, t, now) ==
    LET sessions == IF id \notin DOMAIN m
                    THEN Put(m, id, new_session(now))
                    ELSE m
        session == [titles |-> append_title(sessions[id].titles, t),
                    created |-> now,
                    last_updated |-> now]
    IN Put(sessions, id, session)

\* the mapping update_session_title saves
updated_sessions(m, id, t, now) ==
    LET sessions == IF id \notin DOMAIN m
                    THEN Put(m, id, new_session(now))
                    ELSE m
        session == [sessions[id] EXCEPT !.titles = append_title(@, t),
                                        !.last_updated = now]
    IN Put(sessions, id, session)

\* sessions.json when the first call is made: absent, or cut short
InitialDisks == {Missing, File(<<LBrace>>)}

InitStore ==
    /\ SelectorIdle
    /\ TitlesIdle
    /\ pc = "store"
    /\ total = 0
    /\ window = 0
    /\ disk \in InitialDisks
    /\ saved = EmptyMapping
    /\ clock = 0
    /\ call = [p \in Procs |-> IF p = "cli" THEN NoCall ELSE Off]
    /\ ChoicesIdle

\* update_session_title(id, t): sessions = load_sessions(repo_root);
\* now = datetime.now(timezone.utc).isoformat()
BeginUpdate(p) ==
    /\ call[p].pc \in {"idle", "returned"}
    /\ clock < MaxCalls
    /\ clock' = clock + 1
    /\ \E i \in DOMAIN SessionIds, t \in NewTitles :
          call' = [call EXCEPT ![p] =
                      [pc |-> "loaded", op |-> "update_session_title",
                       session_id |-> SessionIds[i], new_title |-> t,
                       sessions |-> load_sessions(disk), now |-> clock']]
    /\ UNCHANGED <<disk, saved>>
    /\ UNCHANGED <<pc, selectorVars, titleVars, scrollVars, choiceVars>>

\* update_session_title: the rest of the body, save_sessions and return
EndUpdate(p) ==
    /\ call[p].pc = "loaded"
    /\ call[p].op = "update_session_title"
    /\ LET c == call[p]
           sessions == updated_sessions(c.sessions, c.session_id,
                                        c.new_title, c.now)
       IN /\ disk' = save_sessions(disk, sessions)
          /\ saved' = sessions
          /\ call' = [call EXCEPT ![p] =
                         [pc |-> "returned", op |-> c.op,
                          session_id |-> c.session_id,
                          new_title |-> c.new_title,
                          ret |-> sessions[c.session_id]]]
    /\ UNCHANGED clock
    /\ UNCHANGED <<pc, selectorVars, titleVars, scrollVars, choiceVars>>

\* get_session(id): sessions = load_sessions(repo_root)
BeginGet(p) ==
    /\ call[p].pc \in {"idle", "returned"}
    /\ clock < MaxCalls
    /\ \E i \in DOMAIN SessionIds :
          call' = [call EXCEPT ![p] =
                      [pc |-> "loaded", op |-> "get_session",
                       session_id |-> SessionIds[i], new_title |-> "",
                       sessions |-> load_sessions(disk), now |-> clock]]
    /\ UNCHANGED <<disk, saved, clock>>
    /\ UNCHANGED <<pc, selectorVars, titleVars, scrollVars, choiceVars>>

EndGet_touches(p) ==
    /\ call[p].pc = "loaded"
    /\ call[p].op = "get_session"
    /\ clock' = clock + 1
    /\ LET c == call[p]
           sessions == IF c.session_id \notin DOMAIN c.sessions
                       THEN Put(c.sessions, c.session_id, new_session(clock'))
                       ELSE [c.sessions EXCEPT
                                ![c.session_id].last_updated = clock']
       IN /\ disk' = save_sessions(disk, sessions)
          /\ saved' = sessions
          /\ call' = [call EXCEPT ![p] =
                         [pc |-> "returned", op |-> c.op,
                          session_id |-> c.session_id,
                          new_title |-> c.new_title,
                          ret |-> sessions[c.session_id]]]
    /\ UNCHANGED <<pc, selectorVars, titleVars, scrollVars, choiceVars>>

\* get_session: if session_id not in sessions: create it with the time of
\* now and save_sessions; return sessions[session_id]
EndGet(p) ==
    /\ call[p].pc = "loaded"
    /\ call[p].op = "get_session"
    /\ LET c == call[p]
       IN IF c.session_id \notin DOMAIN c.sessions
          THEN LET sessions == Put(c.sessions, c.session_id,
                                   new_session(clock'))
               IN /\ clock' = clock + 1
                  /\ disk' = save_sessions(disk, sessions)
                  /\ saved' = sessions
                  /\ call' = [call EXCEPT ![p] =
                                 [pc |-> "returned", op |-> c.op,
                                  session_id |-> c.session_id,
                                  new_title |-> c.new_title,
                                  ret |-> sessions[c.session_id]]]
          ELSE /\ call' = [call EXCEPT ![p] =
                              [pc |-> "returned", op |-> c.op,
                               session_id |-> c.session_id,
                               new_title |-> c.new_title,
                               ret |-> c.sessions[c.session_id]]]
               /\ UNCHANGED <<disk, saved, clock>>
    /\ UNCHANGED <<pc, selectorVars, titleVars, scrollVars, choiceVars>>

NextStore ==
    \E p \in Procs :
        \/ BeginUpdate(p)
        \/ EndUpdate(p)
        \/ BeginGet(p)
        \/ EndGet(p)

SpecStore == InitStore /\ [][NextStore]_vars

\* two processes call into the store
InitRace ==
    /\ SelectorIdle
    /\ TitlesIdle
    /\ pc = "store"
    /\ total = 0
    /\ window = 0
    /\ disk \in InitialDisks
    /\ saved = EmptyMapping
    /\ clock = 0
    /\ call = [p \in Procs |-> NoCall]
    /\ ChoicesIdle

\* the calls of the two processes, their load and save steps interleaved
SpecRace == InitRace /\ [][NextStore]_vars

----------------------------------------------------------------------------
(* build_session_choices and render_session *)

\* s[:k]
PySlice(s, k) ==
    IF k >= 0
    THEN SubSeq(s, 1, Min(k, Len(s)))
    ELSE SubSeq(s, 1, Max(0, Len(s) + k))

\* str.lstrip of blanks
RECURSIVE LStrip(_)
LStrip(s) ==
    IF s # <<>> /\ s[1] = " " THEN LStrip(Tail(s)) ELSE s

\* " ".join(s.split()) of a text without leading blanks
RECURSIVE JoinWords(_)
JoinWords(s) ==
    IF s = <<>>
    THEN <<>>
    ELSE IF s[1] = " "
         THEN IF LStrip(s) = <<>>
              THEN <<>>
              ELSE <<" ">> \o JoinWords(LStrip(s))
         ELSE <<s[1]>> \o JoinWords(Tail(s))

\* " ".join(first_msg.split())
NormalizeSpace(s) == JoinWords(LStrip(s))

\* project_dir_name.strip("-")
RECURSIVE StripDash(_)
StripDash(s) ==
    IF s # <<>> /\ s[1] = "-"
    THEN StripDash(Tail(s))
    ELSE IF s # <<>> /\ s[Len(s)] = "-"
         THEN StripDash(SubSeq(s, 1, Len(s) - 1))
         ELSE s

\* project_name_to_path of a directory that is not under the home directory:
\* "/" + encoded.replace("-", "/")
project_name_to_path(name) ==
    LET encoded == StripDash(name)
    IN <<"/">> \o [i \in 1..Len(encoded) |->
                      IF encoded[i] = "-" THEN "/" ELSE encoded[i]]

\* str(n) of a natural number
RECURSIVE ToStr(_)
ToStr(n) ==
    LET digit == <<"0", "1", "2", "3", "4", "5", "6", "7", "8", "9">>
    IN IF n < 10
       THEN <<digit[n + 1]>>
       ELSE ToStr(n \div 10) \o <<digit[(n % 10) + 1]>>

\* session["modified"] is not a datetime
NoTime == -1

\* format_relative_time of a time that lies seconds back, less than an hour
format_relative_time(seconds) ==
    IF seconds < 60
    THEN <<"j", "u", "s", "t", " ", "n", "o", "w">>
    ELSE LET minutes == seconds \div 60
         IN ToStr(minutes) \o <<" ", "m", "i", "n", "u", "t", "e">>
               \o (IF minutes # 1 THEN <<"s">> ELSE <<>>)
               \o <<" ", "a", "g", "o">>

choice_of_titled(session, tm) ==
    LET session_id == session.id
        ts == IF session_id \in DOMAIN tm THEN tm[session_id] ELSE <<>>
        project_path == project_name_to_path(session.project)
        first_msg == NormalizeSpace(session.first_message)
        time_str == IF session.modified # NoTime
                    THEN format_relative_time(session.modified)
                    ELSE <<>>
        title_str == format_titles(ts, 50)
    IN [session_id |-> session_id,
        first_message |-> first_msg,
        title |-> title_str,
        project |-> project_path,
        time |-> time_str,
        message_count |-> session.message_count,
        searchable |-> Lower(project_path \o <<" ">> \o first_msg
                                \o <<" ">> \o title_str)]

\* the body of the loop of build_session_choices: the choice of one session
choice_of(session, tm) ==
    LET session_id == session.id
        ts == IF session_id \in DOMAIN tm THEN tm[session_id] ELSE <<>>
        project_path == project_name_to_path(session.project)
        first_msg == NormalizeSpace(session.first_message)
        time_str == IF session.modified # NoTime
                    THEN format_relative_time(session.modified)
                    ELSE <<>>
        title_str == IF ts # <<>> THEN format_titles(ts, 50) ELSE <<>>
    IN [session_id |-> session_id,
        first_message |-> first_msg,
        title |-> title_str,
        project |-> project_path,
        time |-> time_str,
        message_count |-> session.message_count,
        searchable |-> Lower(project_path \o <<" ">> \o first_msg
                                \o <<" ">> \o title_str)]

build_session_choices_newest_first(ss, tm) ==
    [i \in 1..Len(ss) |-> choice_of(ss[Len(ss) + 1 - i], tm)]

\* build_session_choices(sessions, titles_map)
build_session_choices(ss, tm) ==
    [i \in 1..Len(ss) |-> choice_of(ss[i], tm)]

\* "(empty session)"
EmptySession == <<"(", "e", "m", "p", "t", "y", " ", "s", "e", "s", "s", "i",
                  "o", "n", ")">>

\* if len(s) > limit: s = s[: limit - 3] + "..."
truncate(s, limit) ==
    IF Len(s) > limit
    THEN PySlice(s, limit - 3) \o <<".", ".", ".">>
    ELSE s

\* one line render_session returns: its markup, what stands before the text,
\* and the text
Line(part, style, lead, text) ==
    [part |-> part, style |-> style, lead |-> lead, text |-> text]

\* render_session(choice, is_selected, width); the cursor sign is written ">"
render_session(choice, is_selected, w) ==
    LET cursor == IF is_selected THEN <<">", " ">> ELSE <<" ", " ">>
        style == IF is_selected THEN "bold cyan" ELSE "plain"
        max_text_len == w - 4
        has_title == choice.title # <<>>
        first_msg == truncate(IF choice.first_message # <<>>
                              THEN choice.first_message
                              ELSE EmptySession, max_text_len)
        text_lines ==
            IF has_title
            THEN <<Line("title", style, cursor,
                        truncate(choice.title, max_text_len))>>
                 \o (IF choice.first_message # <<>>
                     THEN <<Line("first_message", "dim",
                                 <<" ", " ", " ", " ">>, first_msg)>>
                     ELSE <<>>)
            ELSE <<Line("first_message", style, cursor, first_msg)>>
        meta_parts ==
            (IF choice.time # <<>> THEN <<choice.time>> ELSE <<>>)
            \o <<ToStr(choice.message_count)
                    \o <<" ", "m", "e", "s", "s", "a", "g", "e", "s">>>>
            \o <<choice.project>>
        meta_line == truncate(<<" ", " ", " ", " ">> \o Join(meta_parts), w)
    IN text_lines \o <<Line("meta", "dim", <<>>, meta_line)>>

\* the session info dicts handed to build_session_choices
SessionSet ==
    {[id |-> "s1", project |-> <<"-", "a">>,
      first_message |-> <<" ", "a", " ", " ", "B">>,
      modified |-> 120, message_count |-> 12],
     [id |-> "s2", project |-> <<>>, first_message |-> <<>>,
      modified |-> NoTime, message_count |-> 0],
     [id |-> "s3", project |-> <<"a", "-", "b">>,
      first_message |-> <<"a", "b">>,
      modified |-> 30, message_count |-> 1]}

\* the lists of sessions handed to build_session_choices
SessionLists == UNION {[1..n -> SessionSet] : n \in 0..MaxSessions}

\* the title maps handed to build_session_choices
TitlesMaps ==
    {EmptyMapping,
     [k \in {"s1"} |-> <<>>],
     [k \in {"s1", "s3"} |-> IF k = "s1"
                            THEN <<<<"A">>, <<"x">>>>
                            ELSE <<<<"z", "z", "z">>>>]}

InitChoices ==
    /\ SelectorIdle
    /\ TitlesIdle
    /\ pc = "build_session_choices"
    /\ total = 0
    /\ window = 0
    /\ disk = Missing
    /\ saved = EmptyMapping
    /\ clock = 0
    /\ call = [p \in Procs |-> NoCall]
    /\ session_infos \in SessionLists
    /\ titles_map \in TitlesMaps
    /\ width = 0
    /\ rendered = <<>>

\* choices = build_session_choices(sessions, titles_map)
BuildChoices ==
    /\ pc = "build_session_choices"
    /\ choices' = build_session_choices(session_infos, titles_map)
    /\ pc' = "start"
    /\ UNCHANGED <<selected_idx, scroll_offset, search_query, search_mode,
                   filtered, ch, result, interrupted, tty_mode, old_settings,
                   frame, scenario, esc_tail, read_count>>
    /\ UNCHANGED <<titleVars, scrollVars, storeVars, choiceVars>>

\* a call render_session(choice, is_selected, width) on one of the choices
RenderSession ==
    /\ pc \in {"start", "rendered"}
    /\ \E i \in DOMAIN choices, is_selected \in BOOLEAN, w \in 1..MaxWidth :
          /\ width' = w
          /\ rendered' = [choice |-> choices[i],
                          is_selected |-> is_selected,
                          lines |-> render_session(choices[i], is_selected, w)]
    /\ pc' = "rendered"
    /\ UNCHANGED <<session_infos, titles_map>>
    /\ UNCHANGED <<selectorVars, titleVars, scrollVars, storeVars>>

NextChoices == BuildChoices \/ RenderSession

SpecChoices == InitChoices /\ [][NextChoices]_vars

\* run_interactive_selector(sessions, titles_map) is called with sessions
\* that all have titles
InitSelector ==
    /\ InitChoices
    /\ DOMAIN titles_map = {"s1", "s3"}
    /\ \A i \in DOMAIN session_infos :
          session_infos[i].id \in DOMAIN titles_map

\* the selector on the choices build_session_choices has built
NextSelector == BuildChoices \/ Next

SpecSelector == InitSelector /\ [][NextSelector]_vars

----------------------------------------------------------------------------
(* Properties of the selector loop *)

\* the list the current query selects
Current == get_filtered_choices(choices, search_query)

\* a key event has been read and its branch of the if/elif chain runs
Handles(k) == pc = "dispatch" /\ ch = k /\ ~interrupted'

HandlesEnter == Handles(<<CR>>) \/ Handles(<<LF>>)

\* C1: in every state of the selector, whenever the list filtered by the
\* current query is non-empty, 0 <= selected_idx < len(filtered list).
C1_SelectedInRange ==
    Current # <<>> => 0 <= selected_idx /\ selected_idx < Len(Current)

\* Down was pressed on the last entry of a filtered list longer than the window
C1_Witness ==
    /\ pc = "render"
    /\ ch = KeyDown
    /\ search_query # <<>>
    /\ selected_idx = Len(Current) - 1
    /\ selected_idx >= max_visible

\* C2: every frame drawn with a non-empty filtered list has
\* scroll_offset <= selected_idx <= scroll_offset + max_visible - 1 and
\* 0 <= scroll_offset <= max(0, total - max_visible).
C2_FrameScroll ==
    (pc = "getch" /\ filtered # <<>>) =>
        /\ scroll_offset <= selected_idx
        /\ selected_idx <= scroll_offset + max_visible - 1
        /\ 0 <= scroll_offset
        /\ scroll_offset <= Max(0, Len(filtered) - max_visible)

\* a frame of a filtered list drawn scrolled, the selection on its last row
C2_Witness ==
    /\ pc = "getch"
    /\ search_query # <<>>
    /\ scroll_offset > 0
    /\ selected_idx = scroll_offset + max_visible - 1

\* C3: Enter while Browsing with a non-empty filtered list ends the loop
\* returning the session_id of filtered[selected_idx]; with an empty filtered
\* list it does not end the loop and changes nothing.
C3_EnterBrowsing ==
    [][(HandlesEnter /\ ~search_mode) =>
          IF Current # <<>>
          THEN /\ pc' = "done"
               /\ result' = ReturnId(Current[selected_idx + 1].session_id)
          ELSE /\ pc' = "render"
               /\ UNCHANGED <<selected_idx, scroll_offset, search_query,
                              search_mode, result>>]_vars

\* Enter returned the third entry of a filtered list, not the third choice
C3_Witness ==
    /\ pc = "done"
    /\ ~interrupted
    /\ ch = <<CR>>
    /\ search_query # <<>>
    /\ selected_idx = 2
    /\ result = ReturnId(filtered[3].session_id)
    /\ result # ReturnId(choices[3].session_id)

\* C4: Enter while Searching only sets search_mode to false; the loop goes
\* on, nothing is returned, and query, selected_idx, scroll_offset and the
\* filtered list are unchanged.
C4_EnterSearching ==
    [][(HandlesEnter /\ search_mode) =>
          /\ search_mode' = FALSE
          /\ pc' = "render"
          /\ result' = NotReturned
          /\ UNCHANGED <<search_query, selected_idx, scroll_offset>>
          /\ Current' = Current]_vars

\* Enter left a search with a query typed and the selection moved
C4_Witness ==
    /\ pc = "render"
    /\ ch = <<LF>>
    /\ ~search_mode
    /\ search_query # <<>>
    /\ selected_idx > 0
    /\ result = NotReturned

\* C5: 'q', the Ctrl+C byte and KeyboardInterrupt end the loop returning
\* None in every state; 'q' is not appended to the query while Searching.
C5_Quit ==
    [][/\ (Handles(<<"q">>) \/ Handles(<<CTRLC>>)) =>
              /\ pc' = "done"
              /\ result' = ReturnNone
              /\ search_query' = search_query
       /\ (interrupted' /\ ~interrupted) =>
              /\ pc' = "done"
              /\ result' = ReturnNone]_vars

\* 'q' quit a search that had a query
C5_Witness ==
    /\ pc = "done"
    /\ ~interrupted
    /\ ch = <<"q">>
    /\ search_mode
    /\ search_query # <<>>
    /\ result = ReturnNone

\* C6: Up sets selected_idx to max(0, selected_idx - 1), Down to
\* min(total - 1, selected_idx + 1), in both modes; with an empty filtered
\* list both leave it at 0; neither changes query or search_mode.
C6_UpDown ==
    [][/\ Handles(KeyUp) =>
              /\ selected_idx' = Max(0, selected_idx - 1)
              /\ (Current = <<>> => selected_idx = 0 /\ selected_idx' = 0)
              /\ UNCHANGED <<search_query, search_mode>>
              /\ pc' = "render"
       /\ Handles(KeyDown) =>
              /\ Current # <<>> =>
                    selected_idx' = Min(Len(Current) - 1, selected_idx + 1)
              /\ (Current = <<>> => selected_idx = 0 /\ selected_idx' = 0)
              /\ UNCHANGED <<search_query, search_mode>>
              /\ pc' = "render"]_vars

\* Up was pressed at the top of a filtered list while Searching
C6_Witness ==
    /\ pc = "render"
    /\ ch = KeyUp
    /\ search_mode
    /\ search_query # <<>>
    /\ Len(filtered) > 1
    /\ selected_idx = 0

\* C7: '/' sets search_mode to true, query to empty and selected_idx and
\* scroll_offset to 0 in any state, and the next frame is of the full list.
C7_Slash ==
    [][/\ Handles(<<"/">>) =>
              /\ search_mode' = TRUE
              /\ search_query' = <<>>
              /\ selected_idx' = 0
              /\ scroll_offset' = 0
              /\ pc' = "render"
       /\ (pc = "render" /\ ch = <<"/">> /\ pc' = "getch") =>
              /\ filtered' = choices
              /\ search_query' = <<>>
              /\ selected_idx' = 0
              /\ scroll_offset' = 0]_vars

\* '/' was pressed while a query that hid some choices was active
C7_Witness ==
    /\ pc = "render"
    /\ ch = <<"/">>
    /\ search_mode
    /\ search_query = <<>>
    /\ filtered # choices

\* C8 as stated: after Backspace while Searching the query has lost its last
\* character (unchanged if empty) and selected_idx = scroll_offset = 0.
C8_Original ==
    [][(Handles(<<DEL>>) /\ search_mode) =>
          /\ search_query' = IF search_query = <<>>
                             THEN <<>>
                             ELSE DropLast(search_query)
          /\ selected_idx' = 0
          /\ scroll_offset' = 0]_vars

\* C8 as amended: Backspace while Searching with a non-empty query removes
\* the last character of the query and sets selected_idx = scroll_offset = 0;
\* with an empty query it changes none of query, selected_idx, scroll_offset.
C8_BackspaceSearching ==
    [][(Handles(<<DEL>>) /\ search_mode) =>
          /\ pc' = "render"
          /\ search_mode' = TRUE
          /\ IF search_query # <<>>
             THEN /\ search_query' = DropLast(search_query)
                  /\ Len(search_query') = Len(search_query) - 1
                  /\ selected_idx' = 0
                  /\ scroll_offset' = 0
             ELSE UNCHANGED <<search_query, selected_idx, scroll_offset>>]_vars

\* Backspace on an empty query while Searching kept a moved selection
C8_Witness ==
    /\ pc = "render"
    /\ ch = <<DEL>>
    /\ search_mode
    /\ search_query = <<>>
    /\ selected_idx > 0

\* C9: Backspace while Browsing leaves query, selected_idx and scroll_offset
\* unchanged, also when a query of an earlier search is still active.
C9_BackspaceBrowsing ==
    [][(Handles(<<DEL>>) /\ ~search_mode) =>
          UNCHANGED <<search_query, selected_idx, scroll_offset>>]_vars

\* C10: Escape sets query to empty, search_mode to false and selected_idx and
\* scroll_offset to 0 in any state, and does not end the loop.
C10_Escape ==
    [][Handles(<<ESC>>) =>
          /\ search_query' = <<>>
          /\ search_mode' = FALSE
          /\ selected_idx' = 0
          /\ scroll_offset' = 0
          /\ pc' = "render"
          /\ result' = NotReturned]_vars

\* Escape cleared a query that hid some choices
C10_Witness ==
    /\ pc = "render"
    /\ ch = <<ESC>>
    /\ ~search_mode
    /\ search_query = <<>>
    /\ filtered # <<>>
    /\ filtered # choices

\* C11: a printable character other than 'q' and '/' received while Searching
\* is appended to the end of the query, selected_idx and scroll_offset are
\* reset to 0 and search_mode stays true.
C11_TypeCharacter ==
    [][\A c \in QueryChars :
          (Handles(<<c>>) /\ search_mode) =>
              /\ search_query' = Append(search_query, c)
              /\ selected_idx' = 0
              /\ scroll_offset' = 0
              /\ search_mode' = TRUE
              /\ pc' = "render"]_vars

\* a second, different character was typed after the selection had moved
C11_Witness ==
    /\ pc = "render"
    /\ search_mode
    /\ ch = <<"B">>
    /\ search_query = <<"a", "B">>
    /\ selected_idx = 0
    /\ Len(filtered) > 1

\* the keys no branch of the chain names
OtherKeys ==
    ({<<b>> : b \in Bytes} \cup {<<ESC, "[", b>> : b \in Bytes})
        \ {<<"q">>, <<CTRLC>>, KeyUp, KeyDown, <<CR>>, <<LF>>, <<"/">>,
           <<DEL>>, <<ESC>>}

\* C12: while Browsing any key other than Up, Down, Enter, '/', Backspace,
\* Escape, 'q' and interrupt leaves selected_idx, scroll_offset, search_mode
\* and query unchanged and does not end the loop.
C12_OtherKeyBrowsing ==
    [][\A k \in OtherKeys :
          (Handles(k) /\ ~search_mode) =>
              /\ pc' = "render"
              /\ result' = NotReturned
              /\ UNCHANGED <<selected_idx, scroll_offset, search_mode,
                             search_query>>]_vars

\* a letter was pressed while Browsing a filtered list with a moved selection
C12_Witness ==
    /\ pc = "render"
    /\ ch = <<"a">>
    /\ ~search_mode
    /\ search_query # <<>>
    /\ selected_idx > 0
    /\ result = NotReturned

\* the positions of the choices whose searchable text contains the
\* lowercased query
Matching(cs, q) ==
    {j \in 1..Len(cs) : Contains(cs[j].searchable, Lower(q))}

\* f is the subsequence of cs at the positions in P, in the order of cs
IsSubsequenceAt(f, cs, P) ==
    /\ Len(f) = Cardinality(P)
    /\ \A i \in 1..Len(f) :
          \E j \in P : /\ f[i] = cs[j]
                       /\ Cardinality({k \in P : k < j}) = i - 1

\* C13: the filter returns the full list in the same order for the empty
\* query, and otherwise exactly the order-preserving subsequence of the
\* choices whose searchable text contains the lowercased query.
C13_Filter ==
    pc \in {"getch", "dispatch"} =>
        IF search_query = <<>>
        THEN filtered = choices
        ELSE IsSubsequenceAt(filtered, choices,
                             Matching(choices, search_query))

\* an upper-case query selected some choices and left others out
C13_Witness ==
    /\ pc = "getch"
    /\ search_query = <<"B", "A">>
    /\ Len(filtered) >= 2
    /\ Len(filtered) < Len(choices)
    /\ filtered[2] = choices[7]

\* C14: raw mode is entered before each read, and once a key read has
\* finished or the selector has returned or raised, on every path, the
\* terminal is back in the mode saved before raw mode was entered.
C14_TerminalRestored ==
    /\ pc = "read" => (tty_mode = "raw" /\ old_settings \in InitialModes)
    /\ pc # "read" => (tty_mode = old_settings /\ tty_mode \in InitialModes)

\* a key read raised after an earlier key had been read and handled
C14_Witness ==
    /\ pc = "raised"
    /\ result = Raised
    /\ ch # <<>>
    /\ tty_mode = "cooked"

\* C15: when the current query matches no choice the loop keeps running: the
\* frame shows the no-matches line and no session block, Up and Down leave
\* selected_idx at 0, Enter while Browsing does not end the loop, and 'q'
\* (returning None), Escape and '/' still take effect.
C15_NoMatches ==
    [][Current = <<>> /\ choices # <<>> =>
          /\ (pc = "render" /\ pc' = "getch") =>
                 /\ frame'.kind = "frame"
                 /\ frame'.no_matches
                 /\ frame'.blocks = <<>>
                 /\ frame'.showing = <<>>
                 /\ result' = NotReturned
          /\ (Handles(KeyUp) \/ Handles(KeyDown)) =>
                 /\ selected_idx = 0
                 /\ selected_idx' = 0
                 /\ pc' = "render"
          /\ (HandlesEnter /\ ~search_mode) =>
                 /\ pc' = "render"
                 /\ result' = NotReturned
          /\ Handles(<<"q">>) =>
                 /\ pc' = "done"
                 /\ result' = ReturnNone
          /\ Handles(<<ESC>>) =>
                 /\ search_query' = <<>>
                 /\ ~search_mode'
                 /\ Current' = choices
                 /\ pc' = "render"
          /\ Handles(<<"/">>) =>
                 /\ search_query' = <<>>
                 /\ search_mode'
                 /\ Current' = choices
                 /\ pc' = "render"]_vars

\* Enter was pressed while Browsing a query that matches nothing, and the
\* no-matches frame is on the screen again
C15_Witness ==
    /\ pc = "getch"
    /\ ch = <<CR>>
    /\ ~search_mode
    /\ search_query # <<>>
    /\ Len(choices) > max_visible
    /\ filtered = <<>>
    /\ frame.kind = "frame"
    /\ frame.no_matches
    /\ result = NotReturned

\* C16 as stated: started with zero sessions the selector stays interactive
\* and does not return before a key is read.
C16_Original ==
    (choices = <<>> /\ pc = "done") => ch # <<>>

\* C16 as amended: started with zero sessions the selector prints the
\* empty-state message "No sessions available" and returns None at once; it
\* draws no frame and reads no key.
C16_NoSessions ==
    choices = <<>> =>
        /\ pc \in {"start", "done"}
        /\ ch = <<>>
        /\ tty_mode \in InitialModes
        /\ pc = "done" => (result = ReturnNone /\ frame = NoSessionsFrame)
        /\ pc = "start" => (result = NotReturned /\ frame = NoFrame)

\* the selector has returned from a start with zero sessions
C16_Witness ==
    /\ choices = <<>>
    /\ pc = "done"
    /\ result = ReturnNone
    /\ frame = NoSessionsFrame
    /\ ~interrupted

\* C17: if exactly one choice's searchable text contains the lowercased
\* query, the keys '/', the characters of the query, Enter, Enter from the
\* initial state end the loop returning that choice's session_id, and the
\* frame drawn after the query is typed is of exactly that one choice.
C17_SearchAndSelect ==
    LET M == Matching(choices, search_query)
    IN (Cardinality(M) = 1 /\ ~interrupted /\ pc # "raised") =>
          LET only == choices[CHOOSE j \in M : TRUE]
          IN /\ (scenario = "typing" /\ pc = "getch") =>
                    /\ search_mode
                    /\ filtered = <<only>>
                    /\ Len(frame.blocks) = 1
                    /\ frame.blocks[1].session_id = only.session_id
             /\ scenario = "exit" =>
                    /\ pc # "done"
                    /\ ~search_mode
                    /\ result = NotReturned
             /\ scenario = "select" =>
                    /\ pc = "done"
                    /\ result = ReturnId(only.session_id)

\* '/', two characters in upper case, Enter, Enter returned the one choice
\* of several that matches, which is not the first choice
C17_Witness ==
    /\ scenario = "select"
    /\ pc = "done"
    /\ search_query = <<"B", "[">>
    /\ Len(choices) = 5
    /\ Cardinality(Matching(choices, search_query)) = 1
    /\ result = ReturnId(choices[4].session_id)

----------------------------------------------------------------------------
(* Properties of format_titles *)

\* C18: format_titles of an empty history is "New session", and of a
\* single-entry history it is that entry verbatim for every max_length.
C18_EmptyAndSingle ==
    pc = "formatted" =>
        /\ titles = <<>> => formatted = NewSession
        /\ Len(titles) = 1 => formatted = titles[1]

\* a single title longer than max_length was returned whole
C18_Witness ==
    /\ pc = "formatted"
    /\ Len(titles) = 1
    /\ Len(titles[1]) > max_length
    /\ formatted = titles[1]

\* C19 as stated: for any title list whose ' · ' join has length
\* <= max_length, format_titles returns exactly that join.
C19_Original ==
    (pc = "formatted" /\ Len(Join(titles)) <= max_length) =>
        formatted = Join(titles)

\* C19 as amended: for any non-empty title list whose ' · ' join has length
\* <= max_length, format_titles returns exactly that join.
C19_JoinFits ==
    (pc = "formatted" /\ titles # <<>> /\ Len(Join(titles)) <= max_length) =>
        formatted = Join(titles)

\* a join of four titles that is exactly max_length long was returned
C19_Witness ==
    /\ pc = "formatted"
    /\ Len(titles) = MaxTitles
    /\ Len(Join(titles)) = max_length
    /\ formatted = Join(titles)

\* C20: for any title list and budgets a <= b, format_titles(titles, a) is
\* no longer than format_titles(titles, b).
C20_Monotonic ==
    [][(pc = "formatted" /\ pc' = "formatted" /\ max_length <= max_length') =>
          Len(formatted) <= Len(formatted')]_vars

\* the abbreviated form was returned: longer than the last two titles, shorter
\* than the full join
C20_Witness ==
    /\ pc = "formatted"
    /\ Len(titles) >= 4
    /\ formatted = titles[1] \o Ellipsis \o Join(LastTwo(titles))
    /\ Len(formatted) < Len(Join(titles))
    /\ Len(formatted) > Len(Join(LastTwo(titles)))

\* C21: for a history of two or more titles whose full join exceeds
\* max_length, format_titles returns "{first} ··· {second-to-last} · {last}"
\* when that string fits within max_length, and otherwise exactly the ' · '
\* join of the last two titles, with no truncation.
C21_Abbreviates ==
    (pc = "formatted" /\ Len(titles) >= 2 /\ Len(Join(titles)) > max_length) =>
        LET n == Len(titles)
            lastTwo == titles[n - 1] \o <<" ", "·", " ">> \o titles[n]
            abbreviated == titles[1] \o <<" ", "·", "·", "·", " ">> \o lastTwo
        IN formatted = IF Len(abbreviated) <= max_length
                       THEN abbreviated
                       ELSE lastTwo

\* the last two of four titles were returned whole although their join is
\* longer than max_length
C21_Witness ==
    /\ pc = "formatted"
    /\ Len(titles) = 4
    /\ titles[1] # <<>>
    /\ formatted = titles[3] \o <<" ", "·", " ">> \o titles[4]
    /\ Len(formatted) > max_length

\* the result contains the abbreviation marker "···"
HasMarker(s) == Contains(s, <<"·", "·", "·">>)

\* C22 as stated: for any title list and max_length, the result of
\* format_titles either has length <= max_length or contains the abbreviation
\* marker "···".
C22_Original ==
    pc = "formatted" =>
        (Len(formatted) <= max_length \/ HasMarker(formatted))

\* C22 as amended: for any title list and max_length, the result of
\* format_titles has length <= max_length, or contains the abbreviation marker
\* "···", or is one of the results returned without looking at max_length:
\* "New session" for an empty list, the only title of a single-entry list, or
\* the ' · ' join of the last two titles.
C22_MaxLength ==
    pc = "formatted" =>
        \/ Len(formatted) <= max_length
        \/ HasMarker(formatted)
        \/ titles = <<>> /\ formatted = NewSession
        \/ Len(titles) = 1 /\ formatted = titles[1]
        \/ Len(titles) >= 2 /\ formatted = Join(LastTwo(titles))

\* the join of the last two of three titles was returned: it is longer than
\* max_length and holds no marker
C22_Witness ==
    /\ pc = "formatted"
    /\ Len(titles) = 3
    /\ formatted = Join(LastTwo(titles))
    /\ Len(formatted) > max_length
    /\ ~HasMarker(formatted)

----------------------------------------------------------------------------
(* Properties of the session store *)

\* the mapping sessions.json holds
Stored == load_sessions(disk)

\* process p returns from a call of op
Returns(p, op) ==
    /\ call[p].pc = "loaded"
    /\ call[p].op = op
    /\ call'[p].pc = "returned"

\* no two adjacent entries of ts are equal
NoAdjacentEqual(ts) == \A i \in 1..(Len(ts) - 1) : ts[i] # ts[i + 1]

\* C23: starting from an empty store, after any sequence of
\* update_session_title and get_session calls no stored title list contains
\* two equal adjacent entries, and an update whose title equals the session's
\* most recent title leaves the title list unchanged.
C23_NoRepeat ==
    /\ [](\A id \in DOMAIN Stored : NoAdjacentEqual(Stored[id].titles))
    /\ [][\A p \in Procs :
            LET id == call[p].session_id
            IN (/\ Returns(p, "update_session_title")
                /\ id \in DOMAIN Stored
                /\ call[p].new_title
                      = Stored[id].titles[Len(Stored[id].titles)]) =>
                   Stored'[id].titles = Stored[id].titles]_vars

\* three calls have written s1, the last an update to "First", and its list
\* has two entries: an update with the most recent title was made
C23_Witness ==
    /\ call["cli"].pc = "returned"
    /\ call["cli"].op = "update_session_title"
    /\ call["cli"].new_title = "First"
    /\ DOMAIN Stored = {"s1"}
    /\ Stored["s1"].titles = <<"New session", "First">>
    /\ Stored["s1"].created = 1
    /\ Stored["s1"].last_updated = 3

\* C24: update_session_title on a session id not in the store first creates
\* the session with titles ["New session"] and then applies the append rule;
\* successive updates whose titles each differ from the previous one are
\* appended in call order.
C24_CreateAndAppend ==
    [][\A p \in Procs :
          LET id == call[p].session_id
              t == call[p].new_title
          IN Returns(p, "update_session_title") =>
                /\ id \in DOMAIN Stored'
                /\ call'[p].ret = Stored'[id]
                /\ id \notin DOMAIN Stored =>
                      Stored'[id].titles = IF t = "New session"
                                           THEN <<"New session">>
                                           ELSE <<"New session", t>>
                /\ (/\ id \in DOMAIN Stored
                    /\ t # Stored[id].titles[Len(Stored[id].titles)]) =>
                      Stored'[id].titles = Append(Stored[id].titles, t)]_vars

\* updates "First" then "Second" on a new id have given
\* ["New session", "First", "Second"]
C24_Witness ==
    /\ clock = 2
    /\ call["cli"].pc = "returned"
    /\ "s1" \in DOMAIN Stored
    /\ Stored["s1"].titles = <<"New session", "First", "Second">>
    /\ call["cli"].ret = Stored["s1"]

\* C25: get_session on an id not in the store stores and returns a new
\* session with titles ["New session"]; on an id already in the store it
\* returns the stored session and leaves the whole store unchanged.
C25_GetSession ==
    [][\A p \in Procs :
          LET id == call[p].session_id
          IN Returns(p, "get_session") =>
                /\ id \notin DOMAIN Stored =>
                      /\ DOMAIN Stored' = (DOMAIN Stored) \cup {id}
                      /\ \A k \in DOMAIN Stored : Stored'[k] = Stored[k]
                      /\ Stored'[id].titles = <<"New session">>
                      /\ call'[p].ret = Stored'[id]
                /\ id \in DOMAIN Stored =>
                      /\ call'[p].ret = Stored[id]
                      /\ disk' = disk]_vars

\* get_session has returned a session that an update had given a title
C25_Witness ==
    /\ call["cli"].pc = "returned"
    /\ call["cli"].op = "get_session"
    /\ call["cli"].ret.titles = <<"New session", "Second">>
    /\ DOMAIN Stored = {"s1", "s2"}

\* process p returns from load_sessions
Loads(p) ==
    /\ call[p].pc # "loaded"
    /\ call'[p].pc = "loaded"

----------------------------------------------------------------------------
(* Properties of getch *)

\* C27: the bytes that follow an ESC byte in the input (the "[" and the final
\* byte of an arrow sequence, or any other byte) are never dispatched as
\* literal characters: a key that getch returns when the input read so far
\* ends in ESC or in ESC "[" is not a single byte other than ESC.
C27_EscapeAtomic ==
    [][(pc = "read" /\ pc' = "dispatch" /\ esc_tail # <<>>) =>
          ~(Len(ch') = 1 /\ ch'[1] # ESC)]_vars

\* C28: if the terminal cannot be put into raw mode, the failure leaves the
\* selector as an error: it returns neither a session id nor None, and it
\* takes no further step.
C28_RawModeFails ==
    [][/\ pc # "raised"
       /\ (pc = "getch" /\ pc' # "read" /\ ~interrupted') =>
             (pc' = "raised" /\ result'.kind = "raised")]_vars

\* termios.error has left the selector after a search was typed
C28_Witness ==
    /\ pc = "raised"
    /\ result = TermiosError
    /\ search_query # <<>>
    /\ tty_mode = "cooked"

----------------------------------------------------------------------------
(* Properties of adjust_scroll and render *)

\* C29 as stated: for any total >= 1, selected_idx in [0, total),
\* max_visible >= 1 and prior scroll_offset >= 0, after adjust_scroll
\* scroll_offset <= selected_idx < scroll_offset + max_visible and
\* scroll_offset lies in [0, max(0, total - max_visible)].
C29_Original ==
    [][(pc = "adjust_scroll" /\ pc' = "adjusted") =>
          /\ scroll_offset' <= selected_idx
          /\ selected_idx < scroll_offset' + window
          /\ 0 <= scroll_offset'
          /\ scroll_offset' <= Max(0, total - window)]_vars

\* C29 as amended: for any total >= 1, selected_idx in [0, total),
\* max_visible >= 1 and prior scroll_offset >= 0, after adjust_scroll
\* scroll_offset <= selected_idx < scroll_offset + max_visible and
\* scroll_offset >= 0, and scroll_offset lies in
\* [0, max(0, total - max_visible)] if the prior scroll_offset did.
C29_AdjustScroll ==
    [][(pc = "adjust_scroll" /\ pc' = "adjusted") =>
          /\ scroll_offset' <= selected_idx
          /\ selected_idx < scroll_offset' + window
          /\ 0 <= scroll_offset'
          /\ scroll_offset <= Max(0, total - window) =>
                scroll_offset' <= Max(0, total - window)]_vars

\* the window of 8 rows has been scrolled down to the last of more rows
C29_Witness ==
    /\ pc = "adjusted"
    /\ window = max_visible
    /\ total > window
    /\ selected_idx = total - 1
    /\ scroll_offset = selected_idx - window + 1

\* C30: each frame drawn with a non-empty filtered list shows exactly the
\* choices at indices [scroll_offset, min(scroll_offset + max_visible, total)),
\* between 1 and max_visible of them, and shows the scroll indicator line if
\* and only if total > max_visible, with values satisfying
\* 1 <= scroll_offset + 1 <= visible_end <= total.
C30_FrameWindow ==
    (pc = "getch" /\ filtered # <<>>) =>
        LET n == Len(filtered)
            visible_end == Min(scroll_offset + max_visible, n)
            shown == [i \in DOMAIN frame.blocks |-> frame.blocks[i].session_id]
        IN /\ frame.kind = "frame"
           /\ shown = [i \in 1..(visible_end - scroll_offset) |->
                          filtered[scroll_offset + i].session_id]
           /\ 1 <= Len(shown)
           /\ Len(shown) <= max_visible
           /\ (frame.showing # <<>>) <=> (n > max_visible)
           /\ frame.showing # <<>> =>
                 /\ frame.showing = <<scroll_offset + 1, visible_end, n>>
                 /\ 1 <= frame.showing[1]
                 /\ frame.showing[1] <= frame.showing[2]
                 /\ frame.showing[2] <= frame.showing[3]

\* a frame of a filtered list longer than the window, scrolled by one: rows 2
\* to 9 of 9
C30_Witness ==
    /\ pc = "getch"
    /\ search_query # <<>>
    /\ frame.showing = <<2, max_visible + 1, max_visible + 1>>
    /\ Len(frame.blocks) = max_visible
    /\ frame.blocks[1].session_id = filtered[2].session_id

----------------------------------------------------------------------------
(* Properties of the cursor marker *)

\* the rows of the frame that carry the cursor marker
Marked == {i \in DOMAIN frame.blocks : frame.blocks[i].is_selected}

\* C31: in every frame drawn with a non-empty filtered list, exactly one drawn
\* session block carries the cursor marker, and it is the block of
\* filtered[selected_idx]; the selected entry is never outside the drawn
\* window.
C31_CursorMarker ==
    (pc = "getch" /\ filtered # <<>>) =>
        /\ Cardinality(Marked) = 1
        /\ \A i \in Marked :
              /\ i = selected_idx - scroll_offset + 1
              /\ frame.blocks[i].session_id
                    = filtered[selected_idx + 1].session_id
        /\ selected_idx - scroll_offset + 1 \in DOMAIN frame.blocks

\* a frame of a filtered list, scrolled, the marker on the last of its rows
C31_Witness ==
    /\ pc = "getch"
    /\ search_query # <<>>
    /\ scroll_offset > 0
    /\ Marked = {max_visible}
    /\ selected_idx = Len(filtered) - 1

----------------------------------------------------------------------------
(* Properties of build_session_choices and render_session *)

\* the text render_session starts from for a line of the choice c
LineSource(c, line) ==
    IF line.part = "title"
    THEN c.title
    ELSE IF c.first_message # <<>> THEN c.first_message ELSE EmptySession

\* C32: for every terminal width W and every choice, the rendered title and
\* first-message text after truncation have length <= W - 4 and the metadata
\* line has length <= W; a text longer than its limit is replaced by its first
\* limit-3 characters followed by "...", including for small widths.
C32_Truncation ==
    pc = "rendered" =>
        \A n \in DOMAIN rendered.lines :
            LET line == rendered.lines[n]
                source == LineSource(rendered.choice, line)
                limit == width - 4
            IN IF line.part = "meta"
               THEN Len(line.text) <= width
               ELSE /\ Len(line.text) <= limit
                    /\ Len(source) > limit =>
                          line.text = SubSeq(source, 1, limit - 3)
                                         \o <<".", ".", ".">>

\* C33: build_session_choices returns exactly one choice per input session,
\* in input order, with session_id equal to the session's id; the choice list
\* is built once before the loop and no key event adds, removes, reorders or
\* modifies a choice.
C33_ChoicesBuiltOnce ==
    [][IF pc = "build_session_choices"
       THEN /\ Len(choices') = Len(session_infos)
            /\ \A i \in DOMAIN session_infos :
                  choices'[i].session_id = session_infos[i].id
       ELSE choices' = choices]_vars

\* the choices of sessions s3, s1 were built in that order, a query was typed
\* and a session was selected
C33_Witness ==
    /\ pc = "done"
    /\ result.kind = "session_id"
    /\ search_query # <<>>
    /\ Len(session_infos) = 2
    /\ session_infos[1].id = "s3"
    /\ session_infos[2].id = "s1"
    /\ choices[1].session_id = "s3"
    /\ choices[2].session_id = "s1"

\* session i has no entry, or an empty title list, in the titles map
Untitled(i) ==
    \/ session_infos[i].id \notin DOMAIN titles_map
    \/ titles_map[session_infos[i].id] = <<>>

\* C34: a session that has no entry (or an empty title list) in the titles
\* map gets a choice whose title is the empty string, not "New session"; its
\* searchable text holds only project path and first message, and the renderer
\* shows its first message (or "(empty session)") on line 1.
C34_NoTitle ==
    /\ pc \in {"start", "rendered"} =>
          \A i \in DOMAIN choices :
              Untitled(i) =>
                  /\ choices[i].title = <<>>
                  /\ choices[i].searchable
                        = Lower(choices[i].project \o <<" ">>
                                   \o choices[i].first_message \o <<" ">>)
    /\ (pc = "rendered" /\ rendered.choice.title = <<>>) =>
          LET line == rendered.lines[1]
              source == IF rendered.choice.first_message # <<>>
                        THEN rendered.choice.first_message
                        ELSE EmptySession
          IN /\ line.part = "first_message"
             /\ line.lead = IF rendered.is_selected
                            THEN <<">", " ">>
                            ELSE <<" ", " ">>
             /\ Len(source) <= width - 4 => line.text = source
             /\ Len(source) > width - 4 =>
                   SubSeq(line.text, Len(line.text) - 2, Len(line.text))
                      = <<".", ".", ".">>

\* the choice of a session without titles and without a first message was
\* rendered selected: "(empty session)" on line 1
C34_Witness ==
    /\ pc = "rendered"
    /\ rendered.choice.session_id = "s2"
    /\ rendered.choice.title = <<>>
    /\ rendered.is_selected
    /\ Len(rendered.lines) = 2
    /\ rendered.lines[1].text = EmptySession

----------------------------------------------------------------------------
(* Properties of the returned session and of the key decoder *)

\* C35: whenever the selector returns a session id, that id belongs to the
\* choice that was drawn with the cursor marker in the most recently rendered
\* frame, and that choice's searchable text contains the current lowercased
\* query.
C35_ReturnsMarked ==
    result.kind = "session_id" =>
        /\ frame.kind = "frame"
        /\ \E i \in DOMAIN frame.blocks :
              /\ frame.blocks[i].is_selected
              /\ frame.blocks[i].session_id = result.id
        /\ \E k \in DOMAIN choices :
              /\ choices[k].session_id = result.id
              /\ Contains(choices[k].searchable, Lower(search_query))

\* a session found by a query and reached by scrolling was returned
C35_Witness ==
    /\ pc = "done"
    /\ result.kind = "session_id"
    /\ search_query # <<>>
    /\ scroll_offset > 0
    /\ selected_idx > max_visible - 1

\* C36: the key decoder discards no input: every byte read from the terminal
\* is part of the key event handed to the dispatch, so a key pressed after a
\* bare Escape is dispatched as its own event, and an Escape press takes
\* effect without waiting for a further byte.
C36_NoInputDiscarded ==
    [][(pc = "read" /\ pc' = "dispatch") => read_count' = Len(ch')]_vars

----------------------------------------------------------------------------
(* Properties of concurrent and successive updates *)

\* process p has returned from update_session_title
Updated(p) ==
    /\ call[p].pc = "returned"
    /\ call[p].op = "update_session_title"

\* C37: if two update_session_title calls for different session ids run
\* against the same sessions.json with their load and save steps interleaved,
\* then after both complete the stored file holds the titles written by both
\* calls.
C37_BothUpdatesKept ==
    (/\ Updated("cli")
     /\ Updated("cli2")
     /\ call["cli"].session_id # call["cli2"].session_id) =>
        \A p \in Procs :
            /\ call[p].session_id \in DOMAIN Stored
            /\ \E i \in DOMAIN Stored[call[p].session_id].titles :
                  Stored[call[p].session_id].titles[i] = call[p].new_title

\* the title list update_session_title starts from: the stored one, or that of
\* the session it creates
Previous(id) ==
    IF id \in DOMAIN Stored THEN Stored[id].titles ELSE <<"New session">>

\* C38: after any update_session_title(id, t) the session's previous title
\* list is a prefix of its new title list (which is at most one entry longer),
\* its 'created' value is unchanged if the session already existed, and every
\* other session's entry in the store is unchanged.
C38_AppendOnly ==
    [][\A p \in Procs :
          LET id == call[p].session_id
          IN Returns(p, "update_session_title") =>
                /\ DOMAIN Stored' = (DOMAIN Stored) \cup {id}
                /\ Len(Stored'[id].titles) >= Len(Previous(id))
                /\ Len(Stored'[id].titles) <= Len(Previous(id)) + 1
                /\ SubSeq(Stored'[id].titles, 1, Len(Previous(id)))
                      = Previous(id)
                /\ id \in DOMAIN Stored =>
                      Stored'[id].created = Stored[id].created
                /\ \A k \in (DOMAIN Stored) \ {id} :
                      Stored'[k] = Stored[k]]_vars

\* s1 was created at time 1 and given its third title at time 3, after s2 was
\* created at time 2
C38_Witness ==
    /\ call["cli"].pc = "returned"
    /\ call["cli"].op = "update_session_title"
    /\ DOMAIN Stored = {"s1", "s2"}
    /\ Len(Stored["s1"].titles) = 3
    /\ Stored["s1"].created = 1
    /\ Stored["s1"].last_updated = 3
    /\ Stored["s2"].created = 2
    /\ Stored["s2"].last_updated = 2

====
